---- MODULE Spec2Model ----
(***************************************************************************)
(* The streaming chat pipeline of frontend/js/modules/messaging.js:        *)
(* the frame parser of sendMessage's read loop, handleStreamEvent, the     *)
(* status update queue, and the request life cycle of sendMessage and      *)
(* performWebSearch.                                                       *)
(*                                                                         *)
(* Text is a sequence of one-character strings, so that split, startsWith, *)
(* substring and trim are computed as the JavaScript code computes them.   *)
(* Time is Date.now(), in milliseconds.                                    *)
(***************************************************************************)
EXTENDS Integers, Sequences, FiniteSets, TLC

\* ------------------------------------------------------------------ text

NL == "\n"

WhiteSpace == {" ", "\n", "\t", "\r"}

\* String.prototype.startsWith
StartsWith(s, p) == Len(s) >= Len(p) /\ SubSeq(s, 1, Len(p)) = p

\* String.prototype.substring(n)
Substring(s, n) == SubSeq(s, n + 1, Len(s))

RECURSIVE TrimStart(_)
TrimStart(s) == IF s # <<>> /\ Head(s) \in WhiteSpace THEN TrimStart(Tail(s)) ELSE s

RECURSIVE TrimEnd(_)
TrimEnd(s) ==
    IF s # <<>> /\ s[Len(s)] \in WhiteSpace THEN TrimEnd(SubSeq(s, 1, Len(s) - 1)) ELSE s

\* a trim that leaves the text as it is
TrimsNothing(s) == s

\* String.prototype.trim
Trim(s) == TrimEnd(TrimStart(s))

\* String.prototype.split('\n'): the pieces between line terminators; the
\* last piece is what follows the last terminator (empty when there is none).
RECURSIVE SplitAt(_, _, _)
SplitAt(s, terminators, start) ==
    IF terminators = {} THEN <<SubSeq(s, start, Len(s))>>
    ELSE LET i == CHOOSE j \in terminators : \A k \in terminators : j <= k
         IN  <<SubSeq(s, start, i - 1)>> \o SplitAt(s, terminators \ {i}, i + 1)

Split(s) == SplitAt(s, {i \in 1..Len(s) : s[i] = NL}, 1)

\* Array.prototype.pop: the array without its last element
Front(q) == SubSeq(q, 1, Len(q) - 1)

Last(q) == q[Len(q)]

\* String.prototype.includes
Includes(s, sub) ==
    \E i \in 0..(Len(s) - Len(sub)) : SubSeq(s, i + 1, i + Len(sub)) = sub

\* the text of a literal
Chars(s) == [i \in 1..Len(s) |-> SubSeq(s, i, i)]

\* ------------------------------------------------------- string literals

EventPrefix == <<"e", "v", "e", "n", "t", ":">>
DataPrefix == <<"d", "a", "t", "a", ":">>
CommentPrefix == <<":">>

T_message == <<"m", "e", "s", "s", "a", "g", "e">>
T_connected == <<"c", "o", "n", "n", "e", "c", "t", "e", "d">>
T_thinking == <<"t", "h", "i", "n", "k", "i", "n", "g">>
T_tool == <<"t", "o", "o", "l">>
T_done == <<"d", "o", "n", "e">>
T_error == <<"e", "r", "r", "o", "r">>
T_cancelled == <<"c", "a", "n", "c", "e", "l", "l", "e", "d">>

\* ---------------------------------------------------------- frame parser

\* let eventType = 'message'; let eventData = '';
InitialPending == [eventType |-> T_message, eventData |-> <<>>]

\* eventType = line.substring(6).trim()
OnEventLine(line, p) == [p EXCEPT !.eventType = Trim(Substring(line, Len(EventPrefix)))]

\* a loop that appends each data: line to the pending data
OnDataLineAppends(line, p) ==
    [p EXCEPT !.eventData = p.eventData \o Trim(Substring(line, Len(DataPrefix)))]

\* eventData = line.substring(5).trim()
OnDataLine(line, p) == [p EXCEPT !.eventData = Trim(Substring(line, Len(DataPrefix)))]

\* a line that sets the pending event type, as a field line would
OnCommentLineAsField(line, p) == [p EXCEPT !.eventType = Trim(Substring(line, 1))]

\* heartbeat comment: continue
OnCommentLine(line, p) == p

\* if (eventData) await handleStreamEvent(eventType, eventData, statusId)
Emits(line, p) ==
    /\ ~StartsWith(line, EventPrefix)
    /\ ~StartsWith(line, DataPrefix)
    /\ line = <<>>
    /\ p.eventData # <<>>

\* One iteration of `for (const line of lines)`: the pending event type and
\* data after the line (after the dispatch, when the line dispatches).
AfterLine(line, p) ==
    IF StartsWith(line, EventPrefix) THEN OnEventLine(line, p)
    ELSE IF StartsWith(line, DataPrefix) THEN OnDataLine(line, p)
    ELSE IF line = <<>> THEN (IF p.eventData # <<>> THEN InitialPending ELSE p)
    ELSE IF StartsWith(line, CommentPrefix) THEN OnCommentLine(line, p)
    ELSE p

Frame(p) == [eventType |-> p.eventType, data |-> p.eventData]

\* The lines of the loop up to and including the first one that dispatches:
\* [n |-> lines consumed, emit |-> whether the last one dispatched,
\*  pending |-> the pending pair at the dispatch (or after the last line)].
RECURSIVE Scan(_, _, _)
Scan(lines, p, n) ==
    IF lines = <<>> THEN [n |-> n, emit |-> FALSE, pending |-> p]
    ELSE IF Emits(Head(lines), p) THEN [n |-> n + 1, emit |-> TRUE, pending |-> p]
    ELSE Scan(Tail(lines), AfterLine(Head(lines), p), n + 1)

\* The frames the loop dispatches for one array of lines, in order.
RECURSIVE FramesOfLines(_, _)
FramesOfLines(lines, p) ==
    LET s == Scan(lines, p, 0)
    IN  IF s.emit
        THEN <<Frame(s.pending)>>
                 \o FramesOfLines(SubSeq(lines, s.n + 1, Len(lines)),
                                  AfterLine(<<>>, s.pending))
        ELSE <<>>

\* the pending pair a chunk's line loop starts from
ChunkPending == InitialPending

\* buffer += chunk; lines = buffer.split('\n'); buffer = lines.pop()
ChunkLines(buffer, chunk) == Front(Split(buffer \o chunk))

\* a loop that assigns the chunk to the buffer instead of appending it
ChunkRemainderOfChunk(buffer, chunk) == Last(Split(chunk))

ChunkRemainder(buffer, chunk) == Last(Split(buffer \o chunk))

\* One iteration of the read loop for a chunk, with the dispatched frames.
FeedResult(buffer, chunk) ==
    [buffer |-> ChunkRemainder(buffer, chunk),
     frames |-> FramesOfLines(ChunkLines(buffer, chunk), ChunkPending)]

\* ------------------------------------------------- streams of the parser

\* Protocol blocks and heartbeat lines, as the server serializes them.
KeepAliveEventLine ==
    <<"e", "v", "e", "n", "t", ":", " ", "t", "h", "i", "n", "k", "i", "n", "g", "\n">>

StatusXPayload ==
    <<"{", "\"", "s", "t", "a", "t", "u", "s", "\"", ":", "\"", "x", "\"", "}">>

KeepAliveDataLine == <<"d", "a", "t", "a", ":", " ">> \o StatusXPayload \o <<NL>>

KeepAliveBlock == KeepAliveEventLine \o KeepAliveDataLine \o <<NL>>

\* a block without an event: line
PlainBlock == <<"d", "a", "t", "a", ":", "{", "}", "\n">> \o <<NL>>

Heartbeat == <<":", " ", "k", "\n">>

\* a block with two data: lines
TwoDataBlock ==
    Chars("event: tool") \o <<NL>> \o Chars("data: 1") \o <<NL>>
        \o Chars("data: 2") \o <<NL, NL>>

\* a blank line outside any block
BlankLine == <<NL>>

Items == {"keepalive", "plain", "heartbeat", "twodata", "blank"}

ItemText(it) ==
    CASE it = "keepalive" -> KeepAliveBlock
      [] it = "plain" -> PlainBlock
      [] it = "heartbeat" -> Heartbeat
      [] it = "twodata" -> TwoDataBlock
      [] it = "blank" -> BlankLine

IsHeartbeat(it) == it = "heartbeat"

RECURSIVE Serialize(_)
Serialize(items) ==
    IF items = <<>> THEN <<>> ELSE ItemText(Head(items)) \o Serialize(Tail(items))

\* for each length n of a prefix of Serialize(items), the number of its
\* characters that belong to no heartbeat line
RECURSIVE PlainCounts(_, _)
PlainCounts(items, base) ==
    IF items = <<>> THEN <<>>
    ELSE LET n == Len(ItemText(Head(items)))
         IN  [i \in 1..n |-> IF IsHeartbeat(Head(items)) THEN base ELSE base + i]
                 \o PlainCounts(Tail(items),
                                IF IsHeartbeat(Head(items)) THEN base ELSE base + n)

RECURSIVE WithoutHeartbeats(_)
WithoutHeartbeats(items) ==
    IF items = <<>> THEN <<>>
    ELSE (IF IsHeartbeat(Head(items)) THEN <<>> ELSE <<Head(items)>>)
             \o WithoutHeartbeats(Tail(items))

\* ------------------------------------------------------ status indicator

\* the index of the first element with the id (document.getElementById), or 0
RECURSIVE IndexOfId(_, _, _)
IndexOfId(inds, id, i) ==
    IF i > Len(inds) THEN 0
    ELSE IF inds[i].id = id THEN i
    ELSE IndexOfId(inds, id, i + 1)

\* showStatusIndicator: statusDiv.id = 'status-indicator-' + Date.now()
ShowStatusIndicator(inds, id, text) == Append(inds, [id |-> id, text |-> text])

\* updateStatusIndicator
UpdateStatusIndicator(inds, id, text) ==
    LET i == IndexOfId(inds, id, 1)
    IN  IF i = 0 THEN inds ELSE [inds EXCEPT ![i].text = text]

\* removeStatusIndicator
RemoveStatusIndicator(inds, id) ==
    LET i == IndexOfId(inds, id, 1)
    IN  IF i = 0 THEN inds ELSE SubSeq(inds, 1, i - 1) \o SubSeq(inds, i + 1, Len(inds))

\* ---------------------------------------------------- status update queue

\* const minDisplayTime = 1500
minDisplayTime == 1500

\* if (timeSinceLastUpdate < minDisplayTime)
NeverWaits(t, last) == FALSE

NeedsWait(t, last) == t - last < minDisplayTime

\* setTimeout(resolve, minDisplayTime - timeSinceLastUpdate)
WaitTime(t, last) == minDisplayTime - (t - last)

\* statusUpdateQueue.unshift in place of push
EnqueueFront(q, u) == <<u>> \o q

\* statusUpdateQueue.push({ statusId, statusText })
Enqueue(q, u) == Append(q, u)

NoApply == 0 - 1

Min(a, b) == IF a <= b THEN a ELSE b

\* An update is [statusId, statusText, from], where from = <<call, frame>>
\* names the frame whose handler enqueued it (<<0, n>> for the n-th call made
\* by nobody's handler). The state of the queue is a record qs; beside the
\* variables of the code it holds the indicator elements (inds) and a record
\* of what happened: the updates enqueued and applied in order, the time of
\* the last application (prevAt), the shortest time between two consecutive
\* ones (gap), and the effects of the frame handlers in order (effects).

\* updateStatusIndicator(statusId, statusText); lastStatusUpdateTime = Date.now()
ApplyUpdate(qs, u, t) ==
    [qs EXCEPT !.inds = UpdateStatusIndicator(@, u.statusId, u.statusText),
               !.last = t,
               !.applied = Append(@, u),
               !.effects = Append(@, [call |-> u.from[1], frame |-> u.from[2],
                                      kind |-> "apply"]),
               !.gap = IF qs.prevAt = NoApply THEN @
                       ELSE IF @ = NoApply THEN t - qs.prevAt
                       ELSE Min(@, t - qs.prevAt),
               !.prevAt = t]

\* the while loop of queueStatusUpdate at time t, up to the next pacing delay
\* of processStatusUpdate or to the end of the queue
RECURSIVE DrainLoop(_, _)
DrainLoop(qs, t) ==
    IF qs.queue = <<>> THEN [qs EXCEPT !.processing = FALSE]
    ELSE LET u == Head(qs.queue)
             shifted == [qs EXCEPT !.queue = Tail(@)]
         IN  IF NeedsWait(t, qs.last)
             THEN [shifted EXCEPT
                      !.pacing = <<[update |-> u, due |-> t + WaitTime(t, qs.last)]>>]
             ELSE DrainLoop(ApplyUpdate(shifted, u, t), t)

\* queueStatusUpdate(statusId, statusText), up to its first pacing delay
QueueStatusUpdate(qs, u, t) ==
    LET pushed == [qs EXCEPT !.queue = Enqueue(@, u),
                             !.enqueued = Append(@, u),
                             !.effects = Append(@, [call |-> u.from[1],
                                                    frame |-> u.from[2],
                                                    kind |-> "enqueue"])]
    IN  IF ~qs.processing
        THEN DrainLoop([pushed EXCEPT !.processing = TRUE], t)
        ELSE pushed

\* the pacing delay of processStatusUpdate is over at time t
AfterPacing(qs, t) ==
    DrainLoop(ApplyUpdate([qs EXCEPT !.pacing = <<>>], qs.pacing[1].update, t), t)

\* the promise of a call of queueStatusUpdate is still pending when the call
\* started the drain loop and the loop is in a pacing delay
HandlerNeverWaits(wasProcessing, processing) == FALSE

HandlerWaits(wasProcessing, processing) == ~wasProcessing /\ processing

\* ----------------------------------------------------------- JSON.parse

\* A parsed property is [type, text]: a string with its text, or undefined.
Undefined == [type |-> "undefined", text |-> <<>>]

Str(s) == [type |-> "string", text |-> Chars(s)]

\* the truth value of the property in a condition
Truthy(v) == v.type # "undefined" /\ v.text # <<>>

\* the string the property converts to in a concatenation
ToText(v) == IF v.type = "undefined" THEN Chars("undefined") ELSE v.text

NoFields ==
    [status |-> Undefined, response |-> Undefined, error |-> Undefined,
     display_name |-> Undefined, tool_count |-> Undefined, max_tools |-> Undefined]

EmptyPayload == Chars("{}")
ResponsePayload == Chars("{\"response\":\"ok\"}")
ErrorPayload == Chars("{\"error\":\"boom\"}")
OnItPayload == Chars("{\"status\":\"On it\"}")
HelloPayload == Chars("{\"response\":\"hello!\"}")
EmptyResponsePayload == Chars("{\"response\":\"\"}")
MalformedPayload == Chars("{oops")

\* JSON.parse(eventData), on the payloads of the streams below: the object
\* with its properties, or the SyntaxError thrown for any other text of them
JSONParse(d) ==
    CASE d = EmptyPayload -> [kind |-> "object", v |-> NoFields]
      [] d = StatusXPayload ->
            [kind |-> "object", v |-> [NoFields EXCEPT !.status = Str("x")]]
      [] d = ResponsePayload ->
            [kind |-> "object", v |-> [NoFields EXCEPT !.response = Str("ok")]]
      [] d = ErrorPayload ->
            [kind |-> "object", v |-> [NoFields EXCEPT !.error = Str("boom")]]
      [] d = OnItPayload ->
            [kind |-> "object", v |-> [NoFields EXCEPT !.status = Str("On it")]]
      [] d = HelloPayload ->
            [kind |-> "object", v |-> [NoFields EXCEPT !.response = Str("hello!")]]
      [] d = EmptyResponsePayload ->
            [kind |-> "object", v |-> [NoFields EXCEPT !.response = Str("")]]
      [] OTHER -> [kind |-> "invalid", v |-> NoFields]

\* ------------------------------------------------------ session manager

NoSession == "null"

\* no operation of session.js is under way
NoSessionOp == [pc |-> "idle", id |-> NoSession, made |-> 0]

maxLength == 30

\* SessionManager.generateSessionTitle
GenerateSessionTitle(message) ==
    IF Len(message) <= maxLength THEN message
    ELSE SubSeq(message, 1, maxLength) \o Chars("...")

\* ------------------------------------------------- the steps of a request

\* The steps below take and return a record w of the state they read and
\* write: qs (the status queue and the indicators), flags (requestInProgress
\* and the disabled properties of the two buttons), history
\* (conversationHistory), errors (the messages passed to showError), saved
\* (the bodies posted to /api/messages), titles (the title updates put to
\* /api/sessions/<id>), requests (the bodies posted to /api/chat/stream and
\* /api/search), session (the current session id) and call (the locals of
\* the invocation that takes the step).

\* the effects of the frame handlers are recorded under the call and the
\* number of the frame
Log(w, kind) ==
    [w EXCEPT !.qs.effects =
        Append(@, [call |-> w.call.id, frame |-> Len(w.call.dispatched), kind |-> kind])]

\* sessionManager.saveMessage(role, content) up to its fetch: the call is
\* left at pc when it is suspended there, and untouched when saveMessage
\* returned null
SaveMessage(w, role, content, pc) ==
    IF w.session = NoSession THEN w
    ELSE [w EXCEPT !.saved = Append(@, [session_id |-> w.session, role |-> role,
                                        content |-> content]),
                   !.call.pc = pc]

\* the status texts of lines 487 and 606, without their leading pictographs
OnItText == Chars("On it...")
ThinkingText == Chars("Agent is thinking...")

\* await queueStatusUpdate(statusId, text) in handleStreamEvent
AwaitQueueStatusUpdate(w, text, t) ==
    LET u == [statusId |-> w.call.statusId, statusText |-> text,
              from |-> <<w.call.id, Len(w.call.dispatched)>>]
        qs == QueueStatusUpdate(w.qs, u, t)
    IN  [w EXCEPT !.qs = qs,
                  !.call.pc = IF HandlerWaits(w.qs.processing, qs.processing)
                              THEN "pace" ELSE "lines"]

\* a handler that leaves the indicator where it is
RemoveByFrameKeeps(w) == [Log(w, "remove") EXCEPT !.call.terminal = TRUE]

\* removeStatusIndicator(statusId) of a terminal frame
RemoveByFrame(w) ==
    LET logged == Log(w, "remove")
    IN  [logged EXCEPT !.qs.inds = RemoveStatusIndicator(@, w.call.statusId),
                       !.call.terminal = TRUE]

\* the done case without `if (data.response)`
OnDoneUnchecked(w, data) ==
    LET removed == RemoveByFrame(w)
        pushed == [Log(removed, "append") EXCEPT
                      !.history = Append(@, [role |-> "assistant",
                                             content |-> data.response.text])]
    IN  SaveMessage(IF w.session = NoSession THEN pushed ELSE Log(pushed, "save"),
                    "assistant", data.response.text, "saveAssistant")

\* the done case
OnDone(w, data) ==
    LET removed == RemoveByFrame(w)
        pushed == [Log(removed, "append") EXCEPT
                      !.history = Append(@, [role |-> "assistant",
                                             content |-> data.response.text])]
    IN  IF Truthy(data.response)
        THEN SaveMessage(IF w.session = NoSession THEN pushed ELSE Log(pushed, "save"),
                         "assistant", data.response.text, "saveAssistant")
        ELSE removed

\* the error case
OnError(w, data) ==
    [RemoveByFrame(w) EXCEPT !.errors = Append(@, Chars("Error: ") \o ToText(data.error))]

\* a catch block that leaves the line loop as well
OnParseErrorBreaks(w) == [w EXCEPT !.call.lines = <<>>]

\* catch (error) { console.error('Error parsing event data:', ...) }
OnParseError(w) == w

\* handleStreamEvent(eventType, eventData, statusId) at time t, up to its
\* first suspension: the call is left at "lines" when the handler returned
HandleStreamEvent(w, frame, t) ==
    LET data == JSONParse(frame.data)
        started == [w EXCEPT !.call.dispatched = Append(@, frame), !.call.pc = "lines"]
    IN  IF data.kind = "invalid" THEN OnParseError(started)
        ELSE CASE frame.eventType = T_connected ->
                    AwaitQueueStatusUpdate(started, OnItText, t)
               [] frame.eventType = T_thinking ->
                    AwaitQueueStatusUpdate(started, ToText(data.v.status), t)
               [] frame.eventType = T_tool ->
                    AwaitQueueStatusUpdate(started,
                        ToText(data.v.display_name) \o Chars(" (")
                            \o ToText(data.v.tool_count) \o Chars("/")
                            \o ToText(data.v.max_tools) \o Chars(")"), t)
               [] frame.eventType = T_done -> OnDone(started, data.v)
               [] frame.eventType = T_error -> OnError(started, data.v)
               [] frame.eventType = T_cancelled -> RemoveByFrame(started)
               [] OTHER -> started

\* eventData = ''; eventType = 'message'
AfterHandler(w) == [w EXCEPT !.call.pending = InitialPending, !.call.pc = "lines"]

\* The for loop over the lines of the chunk from where the call is, up to the
\* suspension of a handler, or to reader.read() when the lines are used up.
RECURSIVE RunLoop(_, _)
RunLoop(w, t) ==
    LET s == Scan(w.call.lines, w.call.pending, 0)
        at == [w EXCEPT !.call.lines = SubSeq(@, s.n + 1, Len(@)),
                        !.call.pending = s.pending]
        handled == HandleStreamEvent(at, Frame(s.pending), t)
    IN  IF ~s.emit
        THEN [w EXCEPT !.call.lines = <<>>, !.call.pending = InitialPending,
                       !.call.pc = "read"]
        ELSE IF handled.call.pc = "lines" THEN RunLoop(AfterHandler(handled), t)
        ELSE handled

\* a chunk arrives: the body of the while loop up to the for loop
OnChunk(w, chunk, t) ==
    RunLoop([w EXCEPT !.call.buffer = ChunkRemainder(@, chunk),
                      !.call.lines = ChunkLines(w.call.buffer, chunk),
                      !.call.pending = ChunkPending,
                      !.call.pos = @ + Len(chunk)], t)

\* ------------------------------------------------------------ sendMessage

\* the locals of an invocation that has not been made
NoCall(c) ==
    [id |-> c, kind |-> "none", pc |-> "new", outcome |-> "none", message |-> <<>>,
     before |-> <<>>, statusId |-> 0, stream |-> "none", pos |-> 0, buffer |-> <<>>,
     lines |-> <<>>, pending |-> InitialPending, dispatched |-> <<>>,
     terminal |-> FALSE, attempt |-> 0, wake |-> 0, results |-> <<>>]

MAX_CONVERSATION_HISTORY == 10

\* Array.prototype.slice(-n)
SliceLast(q, n) == SubSeq(q, (IF Len(q) > n THEN Len(q) - n ELSE 0) + 1, Len(q))

\* if (requestInProgress) return, left out
GuardAlwaysPasses(inProgress) == FALSE

\* if (requestInProgress) { ...; return; }
InProgressGuard(inProgress) == inProgress

\* the finally block without requestInProgress = false
SendFinallyKeepsFlag(flags) == [flags EXCEPT !.sendButtonDisabled = FALSE]

\* finally { sendButton.disabled = false; requestInProgress = false; }
SendFinally(flags) ==
    [flags EXCEPT !.sendButtonDisabled = FALSE, !.requestInProgress = FALSE]

\* the catch block without the pop
NoRollback(history) == history

\* if (conversationHistory.length > 0 && last.role === 'user') conversationHistory.pop()
Rollback(history) ==
    IF Len(history) > 0 /\ Last(history).role = "user" THEN Front(history) ELSE history

\* the message shown by the catch block for the error thrown
FailureText(message) ==
    Chars("Failed to get response. ")
        \o (IF Includes(message, Chars("timeout"))
            THEN Chars("Server is taking too long to respond.")
            ELSE IF Includes(message, Chars("Failed to fetch"))
                    \/ Includes(message, Chars("Load failed"))
            THEN Chars("Cannot connect to server.")
            ELSE message)

\* the invocation returns: of its locals, what it was and how it ended stay
Return(w, outcome) ==
    [w EXCEPT !.call = [NoCall(w.call.id) EXCEPT !.pc = "done",
                                                 !.kind = w.call.kind,
                                                 !.outcome = outcome,
                                                 !.terminal = w.call.terminal]]

\* the records of what happened start anew with each invocation that passes
\* its checks; of the status updates, those still waiting stay
Fresh(w) ==
    [w EXCEPT !.errors = <<>>, !.saved = <<>>, !.titles = <<>>, !.requests = <<>>,
              !.qs.effects = <<>>, !.qs.applied = <<>>,
              !.qs.enqueued = (IF w.qs.pacing = <<>> THEN <<>>
                               ELSE <<w.qs.pacing[1].update>>) \o w.qs.queue]

\* the request completes through the finally block
SendCompletes(w, outcome) ==
    Return([w EXCEPT !.flags = SendFinally(@)], outcome)

\* catch (error) { ... } finally { ... } of sendMessage
SendFails(w, message) ==
    SendCompletes([w EXCEPT !.qs.inds = RemoveStatusIndicator(@, w.call.statusId),
                            !.errors = Append(@, FailureText(message)),
                            !.history = Rollback(@)], "failed")

\* a loop that throws when the stream ends with text left in the buffer
OnStreamEndChecksBuffer(w) ==
    IF w.call.buffer # <<>> THEN SendFails(w, Chars("incomplete stream"))
    ELSE SendCompletes(w, "completed")

\* if (done) break: the loop ends with whatever the buffer and the pending
\* event type and data hold, and nothing reads them again
OnStreamEnd(w) == SendCompletes(w, "completed")

\* From `sendButton.disabled = true` to the fetch of the chat stream, at
\* time t.
StartStream(w, t) ==
    [w EXCEPT !.flags.sendButtonDisabled = TRUE,
              !.qs.inds = ShowStatusIndicator(@, t, ThinkingText),
              !.call.statusId = t,
              !.requests = Append(@, [url |-> "chat",
                                      message |-> w.call.message,
                                      conversation_history |->
                                          SliceLast(w.history, MAX_CONVERSATION_HISTORY),
                                      session_id |-> w.session]),
              !.call.pc = "fetch"]

\* after saveMessage('user', message) returned: the title update of the
\* first message, up to its fetch
AfterUserSaved(w, t) ==
    IF Len(w.history) = 1
    THEN [w EXCEPT !.titles = Append(@, [session_id |-> w.session,
                                         title |-> GenerateSessionTitle(w.call.message)]),
                   !.call.pc = "titlePut"]
    ELSE StartStream(w, t)

\* sendMessage past its checks, up to its first suspension
StartSend(w, message, t) ==
    LET begun == [Fresh(w) EXCEPT !.flags.requestInProgress = TRUE,
                           !.history = Append(@, [role |-> "user", content |-> message]),
                           !.call.kind = "send",
                           !.call.message = message,
                           !.call.before = w.history]
        saving == SaveMessage(begun, "user", message, "saveUser")
    IN  IF saving.call.pc = "saveUser" THEN saving ELSE AfterUserSaved(saving, t)

\* -------------------------------------------------------- performWebSearch

MAX_RETRIES == 3
RETRY_DELAY == 1000

NoResultsText == Chars("No search results found.")

\* the text built from one result { title: 't', snippet: 's', link: 'l' }
ResultsText(query) ==
    Chars("Search results for \"") \o query \o Chars("\":\n\n") \o Chars("1. t\ns\nl\n\n")

\* finally { ... } of performWebSearch
SearchFinally(flags) ==
    [flags EXCEPT !.sendButtonDisabled = FALSE, !.searchButtonDisabled = FALSE,
                  !.requestInProgress = FALSE]

\* catch (error) { showError(...) } finally { ... } of performWebSearch
SearchFails(w, message) ==
    Return([w EXCEPT !.errors = Append(@, Chars("Failed to perform search. ") \o message),
                     !.flags = SearchFinally(@)], "failed")

\* the end of the try block and the finally block
SearchCompletes(w) ==
    Return([w EXCEPT !.flags = SearchFinally(@)], "completed")

\* performWebSearch past its checks, up to the fetch of the first attempt
StartSearch(w, query) ==
    [Fresh(w) EXCEPT !.flags = [requestInProgress |-> TRUE, sendButtonDisabled |-> TRUE,
                         searchButtonDisabled |-> TRUE],
              !.call.kind = "search",
              !.call.message = query,
              !.call.before = w.history,
              !.call.attempt = 0,
              !.requests = <<[url |-> "search", query |-> query]>>,
              !.call.pc = "searchFetch"]

\* a retry loop that goes on whatever the message of the error
AttemptRejectedAlwaysRetries(w, message, t) ==
    LET i == w.call.attempt + 1
    IN  IF i < MAX_RETRIES
        THEN [w EXCEPT !.call.attempt = i, !.call.wake = t + RETRY_DELAY * i,
                       !.call.pc = "searchSleep"]
        ELSE SearchFails(w, message)

\* fetchWithRetry: the fetch of the attempt was rejected with the message
AttemptRejected(w, message, t) ==
    LET i == w.call.attempt + 1
    IN  IF Includes(message, Chars("404")) \/ Includes(message, Chars("401"))
        THEN SearchFails(w, message)
        ELSE IF i < MAX_RETRIES
        THEN [w EXCEPT !.call.attempt = i, !.call.wake = t + RETRY_DELAY * i,
                       !.call.pc = "searchSleep"]
        ELSE SearchFails(w, message)

\* after both saveMessage calls returned: the title update, up to its fetch
AfterSearchSaved(w) ==
    IF Len(w.history) = 2
    THEN [w EXCEPT !.titles = Append(@, [session_id |-> w.session,
                                         title |-> GenerateSessionTitle(w.call.message)]),
                   !.call.pc = "searchTitle"]
    ELSE SearchCompletes(w)

\* after saveMessage('user', query) returned
AfterSearchUserSaved(w) ==
    LET saving == SaveMessage(w, "assistant", w.call.results, "searchSaveAssistant")
    IN  IF saving.call.pc = "searchSaveAssistant" THEN saving ELSE AfterSearchSaved(saving)

\* response.json() resolved: from removeTypingIndicator to the first suspension
OnSearchResults(w, results) ==
    LET pushed == [w EXCEPT !.history = @ \o <<[role |-> "user", content |-> w.call.message],
                                               [role |-> "assistant", content |-> results]>>,
                            !.call.results = results]
        saving == SaveMessage(pushed, "user", w.call.message, "searchSaveUser")
    IN  IF saving.call.pc = "searchSaveUser" THEN saving ELSE AfterSearchUserSaved(saving)

\* --------------------------------------------------------------- bounds

MaxItems == 3
MaxChunks == 3
MaxUpdates == 4
MaxTicks == 1
TickStep == 750
MaxCalls == 2
MaxIgnored == 1
MaxErrors == 1
MaxClearing == 1
MaxSessionOps == 1

\* ---------------------------------------------------------------- state

VARIABLES
    pItems,     \* the blocks and heartbeat lines of the stream being parsed
    pPos,       \* characters of the stream delivered so far
    pChunks,    \* chunks delivered so far
    pBuffer,    \* buffer
    pFrames,    \* frames dispatched to handleStreamEvent, in order
    pLines,     \* the lines the line loop has gone through, in order
    rBuffer,    \* buffer of the same read loop fed the stream without heartbeats
    rFrames     \* frames it dispatched

VARIABLES
    now,                      \* Date.now()
    lastStatusUpdateTime,
    statusUpdateQueue,
    isProcessingStatusQueue,
    pacing,                   \* the update processStatusUpdate holds during its delay
    indicators,               \* the status indicator elements of the document
    enqueued,                 \* the updates passed to queueStatusUpdate, in order
    applied,                  \* the updates passed to updateStatusIndicator, in order
    prevApplyAt,              \* the time of the last of them
    shortestGap,              \* the shortest time between two consecutive ones
    effects                   \* the effects of the frame handlers, in order

VARIABLES
    conversationHistory,
    requestInProgress,
    sendButtonDisabled,       \* sendButton.disabled
    searchButtonDisabled,     \* searchButton.disabled
    currentSessionId,         \* sessionManager.currentSessionId
    errors,                   \* the messages passed to showError, in order
    saved,                    \* the bodies posted to /api/messages, in order
    titles,                   \* the title updates put to /api/sessions/<id>
    requests,                 \* the bodies posted to /api/chat/stream and /api/search
    calls,                    \* the locals of the accepted invocations
    nCalls,                   \* how many there are
    ignored,                  \* invocations that found a request in progress
    clearing,                 \* invocations of clearCurrentChat: made, and awaiting the import
    sessionOp                 \* the session operation of session.js under way, and how many were made

parserVars == <<pItems, pPos, pChunks, pBuffer, pFrames, pLines, rBuffer, rFrames>>

queueVars == <<lastStatusUpdateTime, statusUpdateQueue, isProcessingStatusQueue, pacing,
               indicators, enqueued, applied, prevApplyAt, shortestGap, effects>>

requestVars == <<conversationHistory, requestInProgress, sendButtonDisabled,
                 searchButtonDisabled, currentSessionId, errors, saved, titles,
                 requests, calls>>

programVars == <<requestVars, nCalls, ignored, clearing, sessionOp>>

vars == <<parserVars, now, queueVars, programVars>>

RECURSIVE SeqsUpTo(_, _)
SeqsUpTo(S, n) ==
    IF n = 0 THEN {<<>>}
    ELSE LET shorter == SeqsUpTo(S, n - 1)
         IN  shorter \cup {Append(q, x) : q \in {r \in shorter : Len(r) = n - 1}, x \in S}

ParserIdle ==
    /\ pItems = <<>>
    /\ pPos = 0
    /\ pChunks = 0
    /\ pBuffer = <<>>
    /\ pFrames = <<>>
    /\ pLines = <<>>
    /\ rBuffer = <<>>
    /\ rFrames = <<>>

\* let lastStatusUpdateTime = 0; let statusUpdateQueue = [];
\* let isProcessingStatusQueue = false
QueueIdle ==
    /\ lastStatusUpdateTime = 0
    /\ statusUpdateQueue = <<>>
    /\ isProcessingStatusQueue = FALSE
    /\ pacing = <<>>
    /\ enqueued = <<>>
    /\ applied = <<>>
    /\ prevApplyAt = NoApply
    /\ shortestGap = NoApply
    /\ effects = <<>>

\* let conversationHistory = []; let requestInProgress = false
ProgramIdle ==
    /\ conversationHistory = <<>>
    /\ requestInProgress = FALSE
    /\ sendButtonDisabled = FALSE
    /\ searchButtonDisabled = FALSE
    /\ currentSessionId = NoSession
    /\ errors = <<>>
    /\ saved = <<>>
    /\ titles = <<>>
    /\ requests = <<>>
    /\ calls = [c \in 1..MaxCalls |-> NoCall(c)]
    /\ nCalls = 0
    /\ ignored = 0
    /\ clearing = [pending |-> 0, made |-> 0]
    /\ sessionOp = NoSessionOp

\* ------------------------------------------------ the read loop, alone

Streams == SeqsUpTo(Items, MaxItems) \ {<<>>}

\* the serialized text of each stream
TextOf == [items \in Streams |-> Serialize(items)]

\* for each prefix length of it, the characters outside heartbeat lines
PlainOf == [items \in Streams |-> PlainCounts(items, 0)]

\* the serialized text of each stream without its heartbeat lines
PlainTextOf == [items \in Streams |-> Serialize(WithoutHeartbeats(items))]

pText == TextOf[pItems]
pPlain == PlainOf[pItems]
rText == PlainTextOf[pItems]


ParserInit ==
    /\ QueueIdle
    /\ ProgramIdle
    /\ indicators = <<>>
    /\ now = minDisplayTime
    /\ pItems \in Streams
    /\ pPos = 0
    /\ pChunks = 0
    /\ pBuffer = <<>>
    /\ pFrames = <<>>
    /\ pLines = <<>>
    /\ rBuffer = <<>>
    /\ rFrames = <<>>

\* reader.read() resolves with the next k characters of the stream; the
\* last chunk the bound allows carries the rest.
FeedChunk(k) ==
    LET chunk == SubSeq(pText, pPos + 1, pPos + k)
        plain == SubSeq(rText, (IF pPos = 0 THEN 0 ELSE pPlain[pPos]) + 1, pPlain[pPos + k])
        fed == FeedResult(pBuffer, chunk)
        ref == FeedResult(rBuffer, plain)
    IN  /\ pPos + k <= Len(pText)
        /\ pChunks < MaxChunks
        /\ pChunks = MaxChunks - 1 => pPos + k = Len(pText)
        /\ pPos' = pPos + k
        /\ pChunks' = pChunks + 1
        /\ pBuffer' = fed.buffer
        /\ pFrames' = pFrames \o fed.frames
        /\ pLines' = pLines \o ChunkLines(pBuffer, chunk)
        /\ rBuffer' = ref.buffer
        /\ rFrames' = rFrames \o ref.frames
        /\ UNCHANGED <<pItems, now, queueVars, programVars>>

ParserNext == \E k \in 1..(Len(pText) - pPos) : FeedChunk(k)

ParserSpec == ParserInit /\ [][ParserNext]_vars

\* ------------------------------------------------ the state as a record

QS ==
    [queue |-> statusUpdateQueue, last |-> lastStatusUpdateTime,
     processing |-> isProcessingStatusQueue, pacing |-> pacing, inds |-> indicators,
     enqueued |-> enqueued, applied |-> applied, prevAt |-> prevApplyAt,
     gap |-> shortestGap, effects |-> effects]

SetQS(qs) ==
    /\ statusUpdateQueue' = qs.queue
    /\ lastStatusUpdateTime' = qs.last
    /\ isProcessingStatusQueue' = qs.processing
    /\ pacing' = qs.pacing
    /\ indicators' = qs.inds
    /\ enqueued' = qs.enqueued
    /\ applied' = qs.applied
    /\ prevApplyAt' = qs.prevAt
    /\ shortestGap' = qs.gap
    /\ effects' = qs.effects

\* the state read and written by a step of invocation c
W(c) ==
    [qs |-> QS,
     flags |-> [requestInProgress |-> requestInProgress,
                sendButtonDisabled |-> sendButtonDisabled,
                searchButtonDisabled |-> searchButtonDisabled],
     history |-> conversationHistory, errors |-> errors, saved |-> saved,
     titles |-> titles, requests |-> requests, session |-> currentSessionId,
     call |-> calls[c]]

SetW(w, c) ==
    /\ SetQS(w.qs)
    /\ requestInProgress' = w.flags.requestInProgress
    /\ sendButtonDisabled' = w.flags.sendButtonDisabled
    /\ searchButtonDisabled' = w.flags.searchButtonDisabled
    /\ conversationHistory' = w.history
    /\ errors' = w.errors
    /\ saved' = w.saved
    /\ titles' = w.titles
    /\ requests' = w.requests
    /\ currentSessionId' = w.session
    /\ calls' = [calls EXCEPT ![c] = w.call]

\* ------------------------------------------ the status queue and the clock

\* a timer that is set and not yet due
TimerWaiting ==
    \/ pacing # <<>> /\ now < pacing[1].due
    \/ \E c \in 1..MaxCalls : calls[c].pc = "searchSleep" /\ now < calls[c].wake

\* Time passes. It is followed up to the bound, and beyond it for as long as
\* a timer is waiting for it.
Tick ==
    /\ now < minDisplayTime + MaxTicks * TickStep \/ TimerWaiting
    /\ now' = now + TickStep
    /\ UNCHANGED <<parserVars, queueVars, programVars>>

\* The timer of processStatusUpdate fires, not before its delay has passed:
\* the update is applied and the drain loop goes on; when the loop ends, the
\* handler that awaits it returns and the line loop of its call goes on.
PacingTimerFires ==
    /\ pacing # <<>>
    /\ now >= pacing[1].due
    /\ LET qs == AfterPacing(QS, now)
           waiting == {c \in 1..MaxCalls : calls[c].pc = "pace"}
           c == IF waiting = {} THEN 1 ELSE CHOOSE i \in waiting : TRUE
           w == [W(c) EXCEPT !.qs = qs]
       IN  IF waiting # {} /\ ~qs.processing
           THEN SetW(RunLoop(AfterHandler(w), now), c)
           ELSE SetW(w, c)
    /\ UNCHANGED <<parserVars, now, nCalls, ignored, clearing, sessionOp>>

\* ----------------------------------------------- the status queue, alone

QueueIds == {1, 2}
QueueTexts == {<<"a">>, <<"b">>}

QueueInit ==
    /\ ParserIdle
    /\ QueueIdle
    /\ ProgramIdle
    /\ now = minDisplayTime
    /\ indicators = <<[id |-> 1, text |-> <<"a">>], [id |-> 2, text |-> <<"a">>]>>

\* a call of queueStatusUpdate(statusId, statusText), nobody awaiting it
QueueCall(id, text) ==
    /\ Len(enqueued) < MaxUpdates
    /\ SetQS(QueueStatusUpdate(QS, [statusId |-> id, statusText |-> text,
                                    from |-> <<0, Len(enqueued) + 1>>], now))
    /\ UNCHANGED <<parserVars, now, programVars>>

QueueNext ==
    \/ \E id \in QueueIds, text \in QueueTexts : QueueCall(id, text)
    \/ PacingTimerFires
    \/ Tick

QueueSpec == QueueInit /\ [][QueueNext]_vars

QueueFairSpec == QueueSpec /\ WF_vars(PacingTimerFires) /\ WF_vars(Tick)

\* ------------------------------------------------------------ the program

\* The streams the server answers a chat request with.
ConnectedBlock == Chars("event: connected\ndata: {}\n\n")
DoneBlock == Chars("event: done\ndata: ") \o ResponsePayload \o <<NL, NL>>
ErrorBlock == Chars("event: error\ndata: ") \o ErrorPayload \o <<NL, NL>>

ChatStreams == {"answer", "error", "open"}

\* the block the server writes for an event of the type with the payload
Block(type, payload) ==
    Chars("event: ") \o type \o <<NL>> \o Chars("data: ") \o payload \o <<NL, NL>>

\* The streams of single scenarios: the three frames of a complete answer; an
\* error after the connection; a done frame without a response, and one with
\* an empty response; a frame whose payload is no JSON, before a done frame;
\* a stream that ends before the blank line of its done block, and one that
\* ends inside the data: line of it; an answer with nothing before it; a
\* cancelled frame; a block without an event: line and one of a type the
\* handler does not know, before a done frame; two done frames.
FrameStreams ==
    {"happy", "boom", "silent", "blank", "malformed", "unterminated", "remainder",
     "reply", "cancelled", "unknown", "twice"}

StreamText ==
    [s \in ChatStreams \cup FrameStreams |->
        CASE s = "answer" -> ConnectedBlock \o KeepAliveBlock \o DoneBlock
          [] s = "error" -> KeepAliveBlock \o ErrorBlock
          [] s = "open" -> ConnectedBlock
          [] s = "happy" -> Block(T_connected, EmptyPayload)
                                \o Block(T_thinking, OnItPayload)
                                \o Block(T_done, HelloPayload)
          [] s = "boom" -> Block(T_connected, EmptyPayload) \o Block(T_error, ErrorPayload)
          [] s = "silent" -> Block(T_connected, EmptyPayload) \o Block(T_done, EmptyPayload)
          [] s = "blank" -> Block(T_done, EmptyResponsePayload)
          [] s = "malformed" -> Block(T_thinking, MalformedPayload)
                                    \o Block(T_done, HelloPayload)
          [] s = "unterminated" -> Block(T_connected, EmptyPayload)
                                       \o Chars("event: done") \o <<NL>>
                                       \o Chars("data: ") \o HelloPayload \o <<NL>>
          [] s = "remainder" -> Block(T_connected, EmptyPayload)
                                    \o Chars("event: done") \o <<NL>>
                                    \o Chars("data: ") \o HelloPayload
          [] s = "reply" -> Block(T_done, HelloPayload)
          [] s = "cancelled" -> Block(T_cancelled, EmptyPayload)
          [] s = "twice" -> Block(T_done, HelloPayload) \o Block(T_done, ResponsePayload)
          [] s = "unknown" -> PlainBlock \o Block(Chars("ping"), EmptyPayload)
                                  \o Block(T_done, HelloPayload)]

\* Where a chunk of a stream may end: at a line terminator, one character
\* into a line, or at the end of the stream. A cut anywhere else inside a line
\* leaves the same lines and the same kind of remainder as the cut one
\* character into it.
CutPoints ==
    [s \in ChatStreams \cup FrameStreams |->
        LET text == StreamText[s]
        IN  {q \in 1..Len(text) :
                \/ text[q] = NL
                \/ text[q] # NL /\ (q = 1 \/ text[q - 1] = NL)
                \/ q = Len(text)}]

\* what the user types
InputValues == {Chars(" "), Chars(" hi")}

\* the transcripts of a stored session
StoredHistories ==
    {<<>>, <<[role |-> "user", content |-> Chars("hi")],
             [role |-> "assistant", content |-> Chars("ok")]>>}

SessionIds == {"s1"}

Init ==
    /\ ParserIdle
    /\ QueueIdle
    /\ now = minDisplayTime
    /\ indicators = <<>>
    /\ conversationHistory \in StoredHistories
    /\ requestInProgress = FALSE
    /\ sendButtonDisabled = FALSE
    /\ searchButtonDisabled = FALSE
    /\ currentSessionId \in {NoSession} \cup SessionIds
    /\ errors = <<>>
    /\ saved = <<>>
    /\ titles = <<>>
    /\ requests = <<>>
    /\ calls = [c \in 1..MaxCalls |-> NoCall(c)]
    /\ nCalls = 0
    /\ ignored = 0
    /\ clearing = [pending |-> 0, made |-> 0]
    /\ sessionOp = NoSessionOp

\* a step of invocation c that leaves it at w
Step(w, c) ==
    /\ SetW(w, c)
    /\ UNCHANGED <<parserVars, now, nCalls, ignored, clearing, sessionOp>>

\* an invocation that returns after showError(message)
Rejected(message) ==
    /\ Len(errors) < MaxErrors
    /\ errors' = Append(errors, message)
    /\ UNCHANGED <<parserVars, now, queueVars, conversationHistory, requestInProgress,
                   sendButtonDisabled, searchButtonDisabled, currentSessionId, saved,
                   titles, requests, calls, nCalls, ignored, clearing, sessionOp>>

\* an invocation that returns after logging that a request is in progress
Ignored ==
    /\ ignored < MaxIgnored
    /\ ignored' = ignored + 1
    /\ UNCHANGED <<parserVars, now, queueVars, requestVars, nCalls, clearing, sessionOp>>

\* an invocation that becomes call nCalls + 1 and is left at w
Accepted(w) ==
    /\ SetW(w, nCalls + 1)
    /\ nCalls' = nCalls + 1
    /\ UNCHANGED <<parserVars, now, ignored, clearing, sessionOp>>

\* sendMessage() is invoked (the Enter key, or a click on the send button)
\* with messageInput.value = value and navigator.onLine = online, and runs
\* to its first suspension. With an empty message it returns at once.
SendMessage(value, online) ==
    LET message == Trim(value)
    IN  /\ message # <<>>
        /\ IF InProgressGuard(requestInProgress) THEN Ignored
           ELSE IF ~online
           THEN Rejected(Chars("No internet connection. Please check your network."))
           ELSE IF currentSessionId = NoSession
           THEN Rejected(Chars("No active session. Please reload the page."))
           ELSE /\ nCalls < MaxCalls
                /\ Accepted(StartSend(W(nCalls + 1), message, now))

\* saveMessage('user', message) resolves (ok) or throws
SaveUserResolves(c, ok) ==
    /\ calls[c].pc = "saveUser"
    /\ Step(IF ok THEN AfterUserSaved(W(c), now) ELSE StartStream(W(c), now), c)

\* the fetch of the title update resolves or rejects
TitlePutResolves(c) ==
    /\ calls[c].pc = "titlePut"
    /\ Step(StartStream(W(c), now), c)

\* the fetch of the chat stream rejects, or resolves with a status that is
\* not ok, or resolves with the response that carries a stream
FetchResolves(c, result) ==
    /\ calls[c].pc = "fetch"
    /\ Step(CASE result = "rejected" -> SendFails(W(c), Chars("Failed to fetch"))
              [] result = "status" -> SendFails(W(c), Chars("HTTP error! status: 500"))
              [] OTHER -> [W(c) EXCEPT !.call.stream = result, !.call.buffer = <<>>,
                                       !.call.pc = "read"], c)

\* reader.read() resolves with the text of the stream up to some point
ReadChunk(c) ==
    /\ calls[c].pc = "read"
    /\ \E q \in CutPoints[calls[c].stream] :
          /\ q > calls[c].pos
          /\ Step(OnChunk(W(c), SubSeq(StreamText[calls[c].stream], calls[c].pos + 1, q),
                          now), c)

\* reader.read() resolves with done
ReadDone(c) ==
    /\ calls[c].pc = "read"
    /\ calls[c].pos = Len(StreamText[calls[c].stream])
    /\ Step(OnStreamEnd(W(c)), c)

\* reader.read() rejects
ReadThrows(c) ==
    /\ calls[c].pc = "read"
    /\ Step(SendFails(W(c), Chars("network error")), c)

\* saveMessage('assistant', response) resolves or throws
SaveAssistantResolves(c) ==
    /\ calls[c].pc = "saveAssistant"
    /\ Step(RunLoop(AfterHandler(W(c)), now), c)

\* performWebSearch() is invoked (a click on the search button, which a
\* disabled button does not deliver) with messageInput.value = value and
\* navigator.onLine = online, and runs to its first suspension.
PerformWebSearch(value, online) ==
    LET query == Trim(value)
    IN  /\ ~searchButtonDisabled
        /\ IF query = <<>> THEN Rejected(Chars("Please enter a search query"))
           ELSE IF InProgressGuard(requestInProgress) THEN Ignored
           ELSE IF ~online
           THEN Rejected(Chars("No internet connection. Please check your network."))
           ELSE /\ nCalls < MaxCalls
                /\ Accepted(StartSearch(W(nCalls + 1), query))

\* The fetch of an attempt resolves with an ok status, resolves with another
\* status, or rejects with a message without 404 and 401, or with one that
\* holds 404. (The abort after REQUEST_TIMEOUT lies beyond the time
\* that is followed.)
SearchFetchResolves(c, result) ==
    /\ calls[c].pc = "searchFetch"
    /\ Step(CASE result = "ok" -> [W(c) EXCEPT !.call.pc = "searchJson"]
              [] result = "status" -> [W(c) EXCEPT !.call.pc = "searchText"]
              [] result = "rejected" ->
                    AttemptRejected(W(c), Chars("Failed to fetch"), now)
              [] result = "notFound" -> AttemptRejected(W(c), Chars("404"), now), c)

\* sleep(RETRY_DELAY * i) is over: the fetch of attempt i
SearchSleepFires(c) ==
    /\ calls[c].pc = "searchSleep"
    /\ now >= calls[c].wake
    /\ Step([W(c) EXCEPT !.call.pc = "searchFetch"], c)

\* response.text() resolves: throw new Error(`Search failed (...)`)
SearchTextResolves(c) ==
    /\ calls[c].pc = "searchText"
    /\ Step(SearchFails(W(c), Chars("Search failed (500): e")), c)

\* response.json() resolves with one result or with none, or rejects
SearchJsonResolves(c, data) ==
    /\ calls[c].pc = "searchJson"
    /\ Step(CASE data = "one" -> OnSearchResults(W(c), ResultsText(calls[c].message))
              [] data = "none" -> OnSearchResults(W(c), NoResultsText)
              [] OTHER -> SearchFails(W(c), Chars("Unexpected end of JSON input")), c)

\* saveMessage('user', query) resolves (ok) or throws
SearchSaveUserResolves(c, ok) ==
    /\ calls[c].pc = "searchSaveUser"
    /\ Step(IF ok THEN AfterSearchUserSaved(W(c)) ELSE SearchCompletes(W(c)), c)

\* saveMessage('assistant', resultsText) resolves (ok) or throws
SearchSaveAssistantResolves(c, ok) ==
    /\ calls[c].pc = "searchSaveAssistant"
    /\ Step(IF ok THEN AfterSearchSaved(W(c)) ELSE SearchCompletes(W(c)), c)

\* the fetch of the title update resolves or rejects
SearchTitleResolves(c) ==
    /\ calls[c].pc = "searchTitle"
    /\ Step(SearchCompletes(W(c)), c)

\* clearCurrentChat() is invoked (a click on the clear button):
\* chatMessages.innerHTML = '', up to the await of the import
ClearCurrentChat ==
    /\ clearing.made < MaxClearing
    /\ clearing' = [pending |-> clearing.pending + 1, made |-> clearing.made + 1]
    /\ indicators' = <<>>
    /\ UNCHANGED <<parserVars, now, lastStatusUpdateTime, statusUpdateQueue,
                   isProcessingStatusQueue, pacing, enqueued, applied, prevApplyAt,
                   shortestGap, effects, requestVars, nCalls, ignored, sessionOp>>

\* the import resolves: clearConversationHistory()
ClearImported ==
    /\ clearing.pending > 0
    /\ clearing' = [clearing EXCEPT !.pending = @ - 1]
    /\ conversationHistory' = <<>>
    /\ UNCHANGED <<parserVars, now, queueVars, requestInProgress, sendButtonDisabled,
                   searchButtonDisabled, currentSessionId, errors, saved, titles,
                   requests, calls, nCalls, ignored, sessionOp>>

\* the steps that resume invocation c of sendMessage when what it awaits
\* settles
SendContinues(c) ==
    \/ \E ok \in BOOLEAN : SaveUserResolves(c, ok)
    \/ TitlePutResolves(c)
    \/ \E result \in {"rejected", "status"} \cup ChatStreams : FetchResolves(c, result)
    \/ ReadChunk(c)
    \/ ReadDone(c)
    \/ ReadThrows(c)
    \/ SaveAssistantResolves(c)

\* the same for performWebSearch
SearchContinues(c) ==
    \/ \E result \in {"ok", "status", "rejected", "notFound"} :
          SearchFetchResolves(c, result)
    \/ SearchSleepFires(c)
    \/ SearchTextResolves(c)
    \/ \E data \in {"one", "none", "rejected"} : SearchJsonResolves(c, data)
    \/ \E ok \in BOOLEAN : SearchSaveUserResolves(c, ok)
    \/ \E ok \in BOOLEAN : SearchSaveAssistantResolves(c, ok)
    \/ SearchTitleResolves(c)

\* The messaging module: the user sends and searches, what the invocations
\* await settles, timers fire, time passes.
Next ==
    \/ \E value \in InputValues, online \in BOOLEAN : SendMessage(value, online)
    \/ \E value \in InputValues, online \in BOOLEAN : PerformWebSearch(value, online)
    \/ \E c \in 1..MaxCalls : SendContinues(c)
    \/ \E c \in 1..MaxCalls : SearchContinues(c)
    \/ PacingTimerFires
    \/ Tick

Spec == Init /\ [][Next]_vars

\* sendMessage alone
SendNext ==
    \/ \E value \in InputValues, online \in BOOLEAN : SendMessage(value, online)
    \/ \E c \in 1..MaxCalls : SendContinues(c)
    \/ PacingTimerFires
    \/ Tick

\* invocation c of sendMessage is suspended on a fetch, a persistence call or
\* a read of the stream: the condition under which SendContinues(c) is
\* enabled
SendAwaits(c) ==
    calls[c].pc \in {"saveUser", "titlePut", "fetch", "read", "saveAssistant"}

\* the delay of processStatusUpdate is over: the condition under which
\* PacingTimerFires is enabled
PacingDue == pacing # <<>> /\ now >= pacing[1].due

\* Every awaited fetch, persistence call and read settles, every timer that
\* is due fires, and time passes: weak fairness of SendContinues(c), of
\* PacingTimerFires and of Tick, the first two written out with the
\* conditions under which the actions are enabled.
SendFairSpec ==
    /\ Init /\ [][SendNext]_vars
    /\ \A c \in 1..MaxCalls : []<>~SendAwaits(c) \/ []<><<SendContinues(c)>>_vars
    /\ []<>~PacingDue \/ []<><<PacingTimerFires>>_vars
    /\ WF_vars(Tick)

\* The steps of a send whose persistence calls and reads succeed and whose
\* fetch resolves with one of the scenario streams.
FrameContinues(c) ==
    \/ SaveUserResolves(c, TRUE)
    \/ TitlePutResolves(c)
    \/ \E s \in FrameStreams : FetchResolves(c, s)
    \/ ReadChunk(c)
    \/ ReadDone(c)
    \/ SaveAssistantResolves(c)

FrameNext ==
    \/ \E value \in InputValues, online \in BOOLEAN : SendMessage(value, online)
    \/ \E c \in 1..MaxCalls : FrameContinues(c)
    \/ PacingTimerFires
    \/ Tick

FrameSpec == Init /\ [][FrameNext]_vars

\* The chat: sendMessage together with clearCurrentChat of main.js.
ChatNext ==
    \/ SendNext
    \/ ClearCurrentChat
    \/ ClearImported

\* a stored session has been loaded
ChatInit ==
    /\ Init
    /\ currentSessionId \in SessionIds
    /\ conversationHistory # <<>>

ChatSpec == ChatInit /\ [][ChatNext]_vars

\* ------------------------------------------------ the sessions of session.js

\* the sessions of the sidebar, and the one createSession answers with
LoadableSessions == {"s1", "s2"}
NewSessionId == "s3"

\* The messages the server holds for a session: none, a question with its
\* answer, or a question whose answer was never saved.
ServerHistories ==
    StoredHistories \cup {<<[role |-> "user", content |-> Chars("hi")]>>}

\* a step of the session operation under way: what it leaves of the session
\* id, the transcript, the chat display and the errors shown
SessionStep(op, session, history, inds, errs) ==
    /\ sessionOp' = op
    /\ currentSessionId' = session
    /\ conversationHistory' = history
    /\ indicators' = inds
    /\ errors' = errs
    /\ UNCHANGED <<parserVars, now, lastStatusUpdateTime, statusUpdateQueue,
                   isProcessingStatusQueue, pacing, enqueued, applied, prevApplyAt,
                   shortestGap, effects, requestInProgress, sendButtonDisabled,
                   searchButtonDisabled, saved, titles, requests, calls, nCalls,
                   ignored, clearing>>

\* the operation under way is suspended at pc
SessionAwaits(pc) ==
    SessionStep([sessionOp EXCEPT !.pc = pc], currentSessionId, conversationHistory,
                indicators, errors)

\* the operation returns
SessionReturns(session, history, inds, errs) ==
    SessionStep([sessionOp EXCEPT !.pc = "idle", !.id = NoSession],
                session, history, inds, errs)

\* an operation of session.js is invoked (a click in the sidebar)
SessionInvoked(pc, id) ==
    /\ sessionOp.pc = "idle"
    /\ sessionOp.made < MaxSessionOps
    /\ SessionStep([pc |-> pc, id |-> id, made |-> sessionOp.made + 1],
                   currentSessionId, conversationHistory, indicators, errors)

\* loadSession(sessionId), up to `await sessionManager.getSession(...)`
LoadSession(sessionId) == SessionInvoked("getSession", sessionId)

\* getSession rejects: showError; or it resolves with the session and its
\* messages: setCurrentSessionId, chatMessages.innerHTML = '',
\* clearConversationHistory(), setConversationHistory(...)
GetSessionResolves(ok, messages) ==
    /\ sessionOp.pc = "getSession"
    /\ IF ~ok
       THEN SessionReturns(currentSessionId, conversationHistory, indicators,
                           Append(errors, Chars("Failed to load chat session")))
       ELSE SessionReturns(sessionOp.id, messages, <<>>, errors)

\* createNewChat(), from `await isCurrentSessionBlank()` on: without a
\* current session it goes on to createSession, with one it fetches it
BeginCreateNewChat ==
    IF currentSessionId = NoSession THEN "createSession" ELSE "blankCheck"

CreateNewChat == SessionInvoked(BeginCreateNewChat, NoSession)

\* isCurrentSessionBlank() returns (false also when getSession rejected)
BlankCheckResolves(isBlank) ==
    /\ sessionOp.pc = "blankCheck"
    /\ IF isBlank
       THEN SessionReturns(currentSessionId, conversationHistory, indicators, errors)
       ELSE SessionAwaits("createSession")

\* createSession('New Chat') resolves (currentSessionId = session.session_id,
\* then the display and the transcript are cleared) or throws
CreateSessionResolves(ok) ==
    /\ sessionOp.pc = "createSession"
    /\ IF ok THEN SessionReturns(NewSessionId, <<>>, <<>>, errors)
       ELSE SessionReturns(currentSessionId, conversationHistory, indicators,
                           Append(errors, Chars("Failed to create new chat")))

\* deleteSessionAndUpdate(sessionId), up to the fetch of deleteSession
DeleteSessionAndUpdate(sessionId) == SessionInvoked("deleteSession", sessionId)

\* SessionManager.deleteSession after its fetch:
\* if (this.currentSessionId === sessionId) this.currentSessionId = null
AfterDeleteSession(session, sessionId) ==
    IF session = sessionId THEN NoSession ELSE session

\* deleteSession throws: showError; or it resolves, and
\* deleteSessionAndUpdate goes on: createNewChat() if getCurrentSessionId()
\* === sessionId, loadSessions() otherwise
DeleteSessionResolves(ok) ==
    /\ sessionOp.pc = "deleteSession"
    /\ IF ~ok
       THEN SessionReturns(currentSessionId, conversationHistory, indicators,
                           Append(errors, Chars("Failed to delete chat")))
       ELSE LET session == AfterDeleteSession(currentSessionId, sessionOp.id)
            IN  IF session = sessionOp.id
                THEN SessionStep([sessionOp EXCEPT !.pc = "blankCheck", !.id = NoSession],
                                 session, conversationHistory, indicators, errors)
                ELSE SessionReturns(session, conversationHistory, indicators, errors)

SessionOperations ==
    \/ \E sessionId \in LoadableSessions : LoadSession(sessionId)
    \/ \E ok \in BOOLEAN, messages \in ServerHistories : GetSessionResolves(ok, messages)
    \/ CreateNewChat
    \/ \E isBlank \in BOOLEAN : BlankCheckResolves(isBlank)
    \/ \E ok \in BOOLEAN : CreateSessionResolves(ok)
    \/ \E sessionId \in LoadableSessions : DeleteSessionAndUpdate(sessionId)
    \/ \E ok \in BOOLEAN : DeleteSessionResolves(ok)

\* The steps of a send whose persistence calls and reads succeed and whose
\* fetch rejects or resolves with an answer.
SessionContinues(c) ==
    \/ SaveUserResolves(c, TRUE)
    \/ TitlePutResolves(c)
    \/ \E result \in {"rejected", "reply"} : FetchResolves(c, result)
    \/ ReadChunk(c)
    \/ ReadDone(c)
    \/ SaveAssistantResolves(c)

\* The chat with its sidebar: sendMessage together with loadSession,
\* createNewChat and deleteSessionAndUpdate of session.js and
\* clearCurrentChat of main.js.
SessionNext ==
    \/ \E value \in InputValues, online \in BOOLEAN : SendMessage(value, online)
    \/ \E c \in 1..MaxCalls : SessionContinues(c)
    \/ SessionOperations
    \/ ClearCurrentChat
    \/ ClearImported

SessionSpec == Init /\ [][SessionNext]_vars

\* ------------------------------------------------- claims on the parser

\* C1: once the whole stream has been delivered, in whatever chunks, the
\* frames dispatched are the frames dispatched when the whole text is
\* delivered as a single chunk.
C1_ChunkBoundaryInvariance ==
    pPos = Len(pText) => pFrames = FeedResult(<<>>, pText).frames

\* the cuts that fall inside the data: line of the keep-alive block
MidDataLineCuts ==
    (Len(KeepAliveEventLine) + 1)..(Len(KeepAliveEventLine) + Len(KeepAliveDataLine) - 2)

\* C2: the keep-alive block delivered as two chunks cut in the middle of its
\* data: line dispatches exactly one frame, of type thinking.
C2_SplitKeepAlive ==
    [][(/\ pItems = <<"keepalive">>
        /\ pChunks = 1
        /\ pPos \in MidDataLineCuts
        /\ pPos' = Len(pText))
       => pFrames' = <<[eventType |-> T_thinking, data |-> StatusXPayload]>>]_vars

\* C3: the frames dispatched for a stream with heartbeat lines between its
\* blocks are, after every chunk, the frames dispatched for the same chunks
\* with the heartbeat lines left out.
C3_HeartbeatTransparency == pFrames = rFrames

C3_Witness ==
    /\ Len(pItems) = 3
    /\ ~IsHeartbeat(pItems[1]) /\ IsHeartbeat(pItems[2]) /\ ~IsHeartbeat(pItems[3])
    /\ pPos = Len(pText)
    /\ pChunks > 1
    /\ Len(pFrames) = 2

\* ----------------------------------------------- claims on the status queue

\* C8: two consecutive calls of updateStatusIndicator by processStatusUpdate
\* are never less than minDisplayTime apart, whatever ids they carry.
C8_PacingLowerBound == shortestGap = NoApply \/ shortestGap >= minDisplayTime

C8_Witness ==
    /\ Len(applied) >= 3
    /\ \E i \in 1..(Len(applied) - 1) : applied[i].statusId # applied[i + 1].statusId
    /\ shortestGap = minDisplayTime

\* the updates enqueued and not yet applied, in the order they will be
Outstanding ==
    (IF pacing = <<>> THEN <<>> ELSE <<pacing[1].update>>) \o statusUpdateQueue

\* C9: the applied updates followed by the waiting ones are always the
\* enqueued ones, in order (none dropped, duplicated or reordered), and in
\* the end every one of them has been applied.
C9_NoUpdateLost ==
    /\ [](applied \o Outstanding = enqueued)
    /\ <>[](applied = enqueued)

\* an update was enqueued during the pacing delay of the drain loop
C9_Witness ==
    /\ Len(enqueued) = MaxUpdates
    /\ pacing # <<>>
    /\ Len(statusUpdateQueue) >= 2
    /\ Len(applied) >= 1

\* ------------------------------------------------ claims on the requests

\* the invocations that passed their checks and have not returned
OutstandingCalls == {c \in 1..MaxCalls : calls[c].pc \notin {"new", "done"}}

\* C4: at most one request is outstanding at any time, and an invocation of
\* sendMessage or performWebSearch made while requestInProgress is true
\* issues no request, appends nothing to conversationHistory and makes no
\* persistence call.
C4_SingleFlight ==
    /\ [](Cardinality(OutstandingCalls) <= 1)
    /\ [][(/\ requestInProgress
           /\ \E value \in InputValues, online \in BOOLEAN :
                 SendMessage(value, online) \/ PerformWebSearch(value, online))
          => UNCHANGED <<conversationHistory, saved, titles, requests, calls, nCalls>>]_vars

\* an invocation found a request in progress that was suspended
C4_Witness ==
    /\ ignored >= 1
    /\ requestInProgress
    /\ \E c \in OutstandingCalls : calls[c].pc \in {"saveUser", "read", "pace", "searchFetch"}

\* C5: when a send returns through a transport failure and no terminal frame
\* of its stream was processed, conversationHistory is what it was before the
\* send.
C5_Rollback ==
    [][\A c \in 1..MaxCalls :
          (/\ calls[c].kind = "send"
           /\ calls[c].pc # "done"
           /\ calls'[c].pc = "done"
           /\ calls'[c].outcome = "failed"
           /\ ~calls'[c].terminal)
          => conversationHistory' = calls[c].before]_vars

\* C6: every send that set requestInProgress returns, and leaves
\* requestInProgress false and the send button enabled.
C6_ReturnsToIdle ==
    \A c \in 1..MaxCalls :
        (calls[c].kind = "send" /\ calls[c].pc # "done")
            ~> (calls[c].pc = "done" /\ ~requestInProgress /\ ~sendButtonDisabled)

\* a send has returned after an error frame, and the flags are down
C6_Witness ==
    \E c \in 1..MaxCalls :
        /\ calls[c].kind = "send"
        /\ calls[c].pc = "done"
        /\ calls[c].outcome = "completed"
        /\ calls[c].terminal
        /\ Len(conversationHistory) > 0
        /\ Last(conversationHistory).role = "user"
        /\ ~requestInProgress
        /\ ~sendButtonDisabled

\* C7: sendButton.disabled is true exactly when requestInProgress is true.
C7_SendButtonProjection == sendButtonDisabled = requestInProgress

\* the effects of one call are in the order of its frames
EffectsInOrder ==
    \A i, j \in 1..Len(effects) :
        (i < j /\ effects[i].call = effects[j].call) => effects[i].frame <= effects[j].frame

\* before a frame removes the indicator, every update enqueued for the call
\* has been applied
AppliedBeforeRemoval ==
    \A j \in 1..Len(effects) :
        effects[j].kind = "remove" =>
            \A i \in 1..(j - 1) :
                (effects[i].kind = "enqueue" /\ effects[i].call = effects[j].call) =>
                    \E m \in (i + 1)..(j - 1) : effects[m] = [effects[i] EXCEPT !.kind = "apply"]

\* C10: no effect of a frame comes before an effect of an earlier frame of
\* the same stream, the application of a status update after its pacing
\* delay included; a terminal frame removes the indicator only after every
\* update enqueued by the earlier frames has been applied.
C10_ArrivalOrder == EffectsInOrder /\ AppliedBeforeRemoval

\* a done frame removed the indicator after the update of the frame before
\* it had been through its pacing delay
C10_Witness ==
    /\ shortestGap # NoApply
    /\ \E i, j \in 1..Len(effects) :
          /\ i < j
          /\ effects[i].kind = "apply" /\ effects[i].frame = 2
          /\ effects[j].kind = "remove" /\ effects[j].frame = 3

\* ------------------------------------------------ claims on the scenarios

\* invocation c of sendMessage returns in this step
Returns(c) ==
    calls[c].kind = "send" /\ calls[c].pc # "done" /\ calls'[c].pc = "done"

\* it returns through the end of stream s, no error thrown
CompletesStream(c, s) ==
    Returns(c) /\ calls[c].stream = s /\ calls'[c].outcome = "completed"

UserHi == [role |-> "user", content |-> Chars("hi")]

\* C11: a send of "hi" on an empty transcript whose stream delivers
\* connected, thinking {status: "On it"} and done {response: "hello!"} ends
\* with the transcript [user "hi", assistant "hello!"], its indicator
\* removed, requestInProgress false and a title update with title "hi".
C11_HappyPath ==
    [][\A c \in 1..MaxCalls :
          (CompletesStream(c, "happy") /\ calls[c].before = <<>>) =>
              /\ conversationHistory'
                    = <<UserHi, [role |-> "assistant", content |-> Chars("hello!")]>>
              /\ IndexOfId(indicators', calls[c].statusId, 1) = 0
              /\ ~requestInProgress'
              /\ \E i \in 1..Len(titles') : titles'[i].title = Chars("hi")]_vars

\* C12: when the stream delivers connected and then error {error: "boom"},
\* the send ends with the transcript it had before plus the user turn (no
\* assistant turn), its indicator removed, an error shown whose message
\* contains "boom", and requestInProgress false.
C12_MidStreamError ==
    [][\A c \in 1..MaxCalls :
          CompletesStream(c, "boom") =>
              /\ conversationHistory' = Append(calls[c].before, UserHi)
              /\ IndexOfId(indicators', calls[c].statusId, 1) = 0
              /\ \E i \in 1..Len(errors') : Includes(errors'[i], Chars("boom"))
              /\ ~requestInProgress']_vars

\* invocation c of sendMessage has passed its checks and has not returned
InFlightSend(c) == calls[c].kind = "send" /\ calls[c].pc \notin {"new", "done"}

\* a done frame with a non-empty response
DoneWithResponse(f) ==
    f.eventType = T_done /\ Truthy(JSONParse(f.data).v.response)

\* the responses of the done frames with a non-empty response among frames
RECURSIVE Responses(_)
Responses(frames) ==
    IF frames = <<>> THEN <<>>
    ELSE (IF DoneWithResponse(Head(frames))
          THEN <<JSONParse(Head(frames).data).v.response.text>> ELSE <<>>)
             \o Responses(Tail(frames))

\* C13: while a send is in flight, the turns after its user turn are the
\* responses of the done frames with a non-empty response handed to
\* handleStreamEvent so far, each with role assistant, and the same
\* responses are what was passed to saveMessage('assistant', ...); a done
\* frame with an empty or missing response adds neither.
C13_AssistantOnlyOnDone ==
    \A c \in 1..MaxCalls :
        InFlightSend(c) =>
            LET r == Responses(calls[c].dispatched)
            IN  /\ conversationHistory
                      = Append(calls[c].before, [role |-> "user", content |-> calls[c].message])
                            \o [i \in 1..Len(r) |-> [role |-> "assistant", content |-> r[i]]]
                /\ saved
                      = <<[session_id |-> currentSessionId, role |-> "user",
                           content |-> calls[c].message]>>
                            \o [i \in 1..Len(r) |->
                                   [session_id |-> currentSessionId, role |-> "assistant",
                                    content |-> r[i]]]

\* the response of a done frame has been appended and passed to saveMessage
C13_Witness ==
    \E c \in 1..MaxCalls :
        /\ InFlightSend(c)
        /\ calls[c].pc = "saveAssistant"
        /\ Responses(calls[c].dispatched) = <<Chars("hello!")>>
        /\ Last(conversationHistory) = [role |-> "assistant", content |-> Chars("hello!")]

\* a done frame without a response has been handled
C13_EmptyHandled ==
    \E c \in 1..MaxCalls :
        /\ InFlightSend(c)
        /\ \E k \in 1..Len(calls[c].dispatched) :
              /\ calls[c].dispatched[k].eventType = T_done
              /\ ~DoneWithResponse(calls[c].dispatched[k])

\* the frames handed to handleStreamEvent in this step by invocation c
NewFrames(c) ==
    SubSeq(calls'[c].dispatched, Len(calls[c].dispatched) + 1, Len(calls'[c].dispatched))

\* the text of the stream before its last block, in the stream "malformed"
\* the block whose payload is no JSON
MalformedPrefix == Len(Block(T_thinking, MalformedPayload))

\* C14: a step that hands to handleStreamEvent only frames whose data is not
\* valid JSON changes neither conversationHistory nor the indicators nor the
\* status queue nor the request state, shows no error, and leaves the send
\* reading its stream; a chunk that holds the block after such a frame has
\* that block dispatched after it, in order, whether the two arrive in one
\* chunk or the later block in a chunk of its own.
C14_MalformedPayload ==
    [][\A c \in 1..MaxCalls :
          (InFlightSend(c) /\ calls'[c].kind = "send") =>
              /\ (/\ NewFrames(c) # <<>>
                  /\ \A k \in 1..Len(NewFrames(c)) :
                        JSONParse(NewFrames(c)[k].data).kind = "invalid")
                 => /\ UNCHANGED <<conversationHistory, indicators, statusUpdateQueue,
                                   enqueued, errors, requestInProgress,
                                   sendButtonDisabled>>
                    /\ calls'[c].pc = "read"
              /\ (/\ calls[c].stream = "malformed"
                  /\ calls[c].pc = "read"
                  /\ calls[c].pos = 0
                  /\ calls'[c].pos = Len(StreamText["malformed"]))
                 => NewFrames(c) = <<[eventType |-> T_thinking, data |-> MalformedPayload],
                                     [eventType |-> T_done, data |-> HelloPayload]>>
              /\ (/\ calls[c].stream = "malformed"
                  /\ calls[c].pc = "read"
                  /\ calls[c].pos = MalformedPrefix
                  /\ calls[c].dispatched # <<>>
                  /\ calls'[c].pos = Len(StreamText["malformed"]))
                 => NewFrames(c) = <<[eventType |-> T_done, data |-> HelloPayload]>>]_vars

\* the whole stream arrived as one chunk: the frame that is no JSON was
\* dropped and the done frame after it appended its response
C14_Witness ==
    \E c \in 1..MaxCalls :
        /\ InFlightSend(c)
        /\ calls[c].stream = "malformed"
        /\ calls[c].pc = "saveAssistant"
        /\ Len(calls[c].dispatched) = 2
        /\ JSONParse(calls[c].dispatched[1].data).kind = "invalid"
        /\ errors = <<>>
        /\ Last(conversationHistory) = [role |-> "assistant", content |-> Chars("hello!")]

\* ------------------------------------------- claims on persistence failures

\* invocation c is suspended on a persistence call: saveMessage or the title
\* update
AwaitsPersistence(c) == calls[c].pc \in {"saveUser", "titlePut", "saveAssistant"}

\* C15: a send is never suspended on a persistence call (the chat request
\* and the frames after a done frame do not wait for its outcome), and a
\* saveMessage that throws removes no turn and is followed by the chat
\* request.
C15_PersistenceIsolated ==
    /\ [](\A c \in 1..MaxCalls : ~AwaitsPersistence(c))
    /\ [][\A c \in 1..MaxCalls :
             SaveUserResolves(c, FALSE) =>
                 /\ conversationHistory' = conversationHistory
                 /\ Len(requests') = Len(requests) + 1]_vars

\* ------------------------------------------------- claims on the transport

\* C16: when the stream of a send in flight is aborted (reader.read()
\* rejects), the send returns with requestInProgress false, no further frame
\* dispatched, and conversationHistory as it was at that moment: no turn
\* appended and none removed.
C16_Cancellation ==
    [][\A c \in 1..MaxCalls :
          ReadThrows(c) =>
              /\ calls'[c].pc = "done"
              /\ ~requestInProgress'
              /\ conversationHistory' = conversationHistory]_vars

\* C17: the chat request a send issues carries the message of the send, the
\* current session id and the last min(10, length) turns of
\* conversationHistory as it is then, oldest first: at most 10 turns, the
\* last of them the user turn the send appended.
C17_RequestContract ==
    [][\A c \in 1..MaxCalls :
          (calls[c].pc # "fetch" /\ calls'[c].pc = "fetch") =>
              LET request == Last(requests')
                  h == conversationHistory'
                  n == Min(10, Len(h))
              IN  /\ request.message = calls'[c].message
                  /\ request.session_id = currentSessionId'
                  /\ request.conversation_history = SubSeq(h, Len(h) - n + 1, Len(h))
                  /\ Len(request.conversation_history) <= 10
                  /\ request.conversation_history # <<>>
                  /\ Last(request.conversation_history)
                        = [role |-> "user", content |-> calls'[c].message]]_vars


\* ------------------------------------------------- claims on the line loop

\* the text received so far
Received == SubSeq(pText, 1, pPos)

\* what follows the last line terminator of a text (all of it when it has none)
AfterLastTerminator(s) ==
    LET T == {i \in 1..Len(s) : s[i] = NL}
    IN  IF T = {} THEN s
        ELSE SubSeq(s, (CHOOSE i \in T : \A j \in T : j <= i) + 1, Len(s))

\* the lines, each followed by a line terminator
RECURSIVE JoinLines(_)
JoinLines(lines) ==
    IF lines = <<>> THEN <<>> ELSE Head(lines) \o <<NL>> \o JoinLines(Tail(lines))

\* C18: after each chunk the buffer is the text received so far after its
\* last line terminator, and the lines the loop has gone through, each
\* followed by a line terminator, followed by the buffer, are the whole text
\* received so far: no line is lost at a chunk boundary.
C18_NoLineLost ==
    /\ pBuffer = AfterLastTerminator(Received)
    /\ JoinLines(pLines) \o pBuffer = Received

\* a second chunk has ended inside a line, after lines were completed
C18_Witness ==
    /\ pChunks >= 2
    /\ pLines # <<>>
    /\ pBuffer # <<>>
    /\ pPos < Len(pText)


\* the frame a block is to dispatch: its event type (message when it has no
\* event: line) and the payload of its last data: line
ItemFrames(it) ==
    CASE it = "keepalive" -> <<[eventType |-> T_thinking, data |-> StatusXPayload]>>
      [] it = "plain" -> <<[eventType |-> T_message, data |-> Chars("{}")]>>
      [] it = "twodata" -> <<[eventType |-> T_tool, data |-> Chars("2")]>>
      [] OTHER -> <<>>

RECURSIVE BlockFrames(_)
BlockFrames(items) ==
    IF items = <<>> THEN <<>> ELSE ItemFrames(Head(items)) \o BlockFrames(Tail(items))

\* C19: the line loop dispatches, for the lines of one chunk, one frame per
\* block, carrying the block's last data: line alone (nothing for a blank
\* line with no pending data, and a block without an event: line gets the
\* type message, whatever block came before it); under every chunking no
\* frame carries an earlier data: line or several of them, and a frame of a
\* block without an event: line has the type message.
C19_LineLoop ==
    /\ (pChunks = 1 /\ pPos = Len(pText)) => pFrames = BlockFrames(pItems)
    /\ \A i \in DOMAIN pFrames :
          /\ pFrames[i].data \in {StatusXPayload, Chars("{}"), Chars("2")}
          /\ pFrames[i].data = Chars("{}") => pFrames[i].eventType = T_message
    /\ (\A i \in DOMAIN pItems : pItems[i] \in {"blank", "heartbeat"}) => pFrames = <<>>

\* a block with two data: lines, a blank line and a block without an event:
\* line have gone through the loop in one chunk
C19_Witness ==
    /\ pItems = <<"twodata", "blank", "plain">>
    /\ pChunks = 1
    /\ pPos = Len(pText)
    /\ pFrames = <<[eventType |-> T_tool, data |-> Chars("2")],
                   [eventType |-> T_message, data |-> Chars("{}")]>>


\* ------------------------------------------- claims on the end of the stream

\* the streams that end with a block that never got its blank line
IncompleteStreams == {"unterminated", "remainder"}

\* C20: when the stream ends with a remainder in the buffer, or with a block
\* that never got its blank line, that input is dropped: no frame was
\* dispatched for it, the send returns through the normal path with no error
\* shown, and the transcript keeps the user turn with nothing after it.
C20_IncompleteInputDiscarded ==
    [][\A c \in 1..MaxCalls :
          (ReadDone(c) /\ calls[c].stream \in IncompleteStreams) =>
              /\ calls[c].stream = "remainder" => calls[c].buffer # <<>>
              /\ \A i \in DOMAIN calls[c].dispatched :
                    calls[c].dispatched[i].data # HelloPayload
              /\ calls'[c].pc = "done"
              /\ calls'[c].outcome = "completed"
              /\ errors' = <<>>
              /\ saved' = saved
              /\ conversationHistory' = Append(calls[c].before, UserHi)
              /\ ~requestInProgress'
              /\ ~sendButtonDisabled']_vars

\* the whole of a stream that ends inside a data: line has been read, and
\* the buffer holds the line
C20_Witness ==
    \E c \in 1..MaxCalls :
        /\ calls[c].pc = "read"
        /\ calls[c].stream = "remainder"
        /\ calls[c].pos = Len(StreamText["remainder"])
        /\ calls[c].buffer = Chars("data: ") \o HelloPayload
        /\ calls[c].dispatched # <<>>


\* ------------------------------------------------- claims on the sessions

\* invocation c of sendMessage returns through its catch block in this step
FailsNow(c) ==
    /\ calls[c].kind = "send"
    /\ calls[c].pc # "done"
    /\ calls'[c].pc = "done"
    /\ calls'[c].outcome = "failed"

\* C21: a send that fails removes a turn only when the transcript is what
\* the send made of it (the transcript at its start followed by its user
\* turn), and then it removes that user turn: never a turn of an earlier
\* send or of a loaded session.
C21_RollbackOwnTurn ==
    [][\A c \in 1..MaxCalls :
          (FailsNow(c) /\ conversationHistory' # conversationHistory) =>
              /\ conversationHistory
                    = Append(calls[c].before,
                             [role |-> "user", content |-> calls[c].message])
              /\ conversationHistory' = calls[c].before]_vars


\* C22: while a send is in flight, every step that changes
\* conversationHistory is a step of that send.
C22_TranscriptOwnedBySend ==
    [][\A c \in 1..MaxCalls :
          (InFlightSend(c) /\ conversationHistory' # conversationHistory)
              => calls'[c] # calls[c]]_vars


\* ------------------------------------------------ claims on the other frames

\* the event types handleStreamEvent has a case for
KnownTypes == {T_connected, T_thinking, T_tool, T_done, T_error, T_cancelled}

\* the frames of the stream "unknown"
UnknownFrames ==
    <<[eventType |-> T_message, data |-> Chars("{}")],
      [eventType |-> Chars("ping"), data |-> EmptyPayload],
      [eventType |-> T_done, data |-> HelloPayload]>>

\* C23: a step that hands a cancelled frame to handleStreamEvent removes the
\* element with the status id of the send from the indicators (it is there,
\* no terminal frame came before) and leaves conversationHistory as it is; a
\* step that hands it only frames of types it has no case for (message
\* among them) changes neither conversationHistory nor the indicators nor
\* the status queue, shows no error and leaves the send reading its stream;
\* the done frame that follows two such frames in a chunk is handled.
C23_OtherFrames ==
    [][\A c \in 1..MaxCalls :
          (InFlightSend(c) /\ calls'[c].kind = "send") =>
              /\ NewFrames(c) = <<[eventType |-> T_cancelled, data |-> EmptyPayload]>>
                 => /\ conversationHistory' = conversationHistory
                    /\ errors' = errors
                    /\ \E i \in DOMAIN indicators :
                          /\ indicators[i].id = calls[c].statusId
                          /\ indicators' = SubSeq(indicators, 1, i - 1)
                                               \o SubSeq(indicators, i + 1, Len(indicators))
                    /\ calls'[c].pc = "read"
              /\ (/\ NewFrames(c) # <<>>
                  /\ \A k \in 1..Len(NewFrames(c)) :
                        /\ NewFrames(c)[k].eventType \notin KnownTypes
                        /\ JSONParse(NewFrames(c)[k].data).kind # "invalid")
                 => /\ UNCHANGED <<conversationHistory, indicators, statusUpdateQueue,
                                   enqueued, errors, requestInProgress,
                                   sendButtonDisabled>>
                    /\ calls'[c].pc = "read"
              /\ (/\ calls[c].stream = "unknown"
                  /\ calls[c].pc = "read"
                  /\ calls[c].pos = 0
                  /\ calls'[c].pos = Len(StreamText["unknown"]))
                 => /\ NewFrames(c) = UnknownFrames
                    /\ conversationHistory'
                          = Append(conversationHistory,
                                   [role |-> "assistant", content |-> Chars("hello!")])]_vars

\* two frames of types without a case were handed over, the indicator still
\* there, before the done frame of a later chunk
C23_Witness ==
    \E c \in 1..MaxCalls :
        /\ InFlightSend(c)
        /\ calls[c].stream = "unknown"
        /\ calls[c].pc = "read"
        /\ calls[c].dispatched = SubSeq(UnknownFrames, 1, 2)
        /\ \E i \in DOMAIN indicators : indicators[i].id = calls[c].statusId
        /\ Last(conversationHistory) = [role |-> "user", content |-> calls[c].message]
        /\ errors = <<>>

\* a cancelled frame was handed over and the indicator is gone
C23_CancelledHandled ==
    \E c \in 1..MaxCalls :
        /\ InFlightSend(c)
        /\ calls[c].stream = "cancelled"
        /\ calls[c].dispatched = <<[eventType |-> T_cancelled, data |-> EmptyPayload]>>
        /\ indicators = <<>>


\* ------------------------------------------------- claims on the guards

\* C24: sendMessage with a whitespace-only text does nothing at all (no step
\* of the program is such an invocation), and sendMessage without a current
\* session id shows an error and changes nothing else: requestInProgress
\* stays false, conversationHistory, the indicators and the calls made to the
\* server stay as they are, and no invocation is left suspended.
C24_RejectedBeforeWork ==
    [][/\ \A online \in BOOLEAN : ~SendMessage(Chars(" "), online)
       /\ \A value \in InputValues :
             (/\ SendMessage(value, TRUE)
              /\ currentSessionId = NoSession
              /\ ~requestInProgress)
                => /\ errors' = Append(errors,
                                       Chars("No active session. Please reload the page."))
                   /\ ~requestInProgress'
                   /\ UNCHANGED <<conversationHistory, indicators, statusUpdateQueue,
                                  enqueued, saved, titles, requests, calls, nCalls,
                                  sendButtonDisabled>>]_vars

\* a send without a session was rejected with the error
C24_Witness ==
    /\ currentSessionId = NoSession
    /\ errors = <<Chars("No active session. Please reload the page.")>>
    /\ ~requestInProgress
    /\ nCalls = 0
    /\ indicators = <<>>
    /\ requests = <<>>


\* ------------------------------------------------- claims on the title

\* C25: when a send issues its chat request, it has requested a title update
\* exactly if its user turn was the first turn of the transcript; the title
\* is the message when that has at most 30 characters, and else its first 30
\* characters followed by "...": never more than 33 characters.
C25_TitleOnFirstTurn ==
    [][\A c \in 1..MaxCalls :
          (calls[c].kind = "send" /\ calls[c].pc # "fetch" /\ calls'[c].pc = "fetch") =>
              LET message == calls'[c].message
              IN  /\ (titles' # <<>>) <=> (calls'[c].before = <<>>)
                  /\ titles' # <<>> =>
                        /\ Len(titles') = 1
                        /\ titles'[1].title
                              = (IF Len(message) <= 30 THEN message
                                 ELSE SubSeq(message, 1, 30) \o Chars("..."))
                        /\ Len(titles'[1].title) <= 33]_vars


\* ------------------------------------------- claims on the status indicator

\* C26: when an invocation of sendMessage returns, no element with its
\* status id is left among the indicators.
C26_IndicatorGoneAtReturn ==
    [][\A c \in 1..MaxCalls :
          (calls[c].kind = "send" /\ calls[c].pc # "done" /\ calls'[c].pc = "done") =>
              \A i \in DOMAIN indicators' : indicators'[i].id # calls[c].statusId]_vars


\* the session ids of the calls the invocation under way (or the last one)
\* has made: the saves of its turns, its title update and its request
SessionIdsUsed ==
    {saved[i].session_id : i \in DOMAIN saved}
        \cup {requests[i].session_id : i \in DOMAIN requests}
        \cup {titles[i].session_id : i \in DOMAIN titles}

\* C27: the calls one invocation of sendMessage makes all carry the same
\* session id.
C27_OneSessionPerSend == Cardinality(SessionIdsUsed) <= 1


\* ------------------------------------------- claims on the terminal frames

\* C28: a send in flight has appended at most one assistant turn: the
\* transcript holds at most two turns more than at its start.
C28_OneAssistantTurn ==
    \A c \in 1..MaxCalls :
        InFlightSend(c) => Len(conversationHistory) <= Len(calls[c].before) + 2


\* C29: deleteSessionAndUpdate does not return from a successful deletion
\* of the session that was the active one without a current session id.
C29_SessionAfterDelete ==
    [][(/\ sessionOp.pc = "deleteSession"
        /\ sessionOp.id = currentSessionId
        /\ DeleteSessionResolves(TRUE)
        /\ sessionOp'.pc = "idle")
       => currentSessionId' # NoSession]_vars


\* ------------------------------------------------- claims on the retries

\* invocation c of performWebSearch is inside fetchWithRetry
Retrying(c) == calls[c].kind = "search" /\ calls[c].pc \in {"searchFetch", "searchSleep"}

\* invocation c of performWebSearch has not returned
InFlightSearch(c) == calls[c].kind = "search" /\ calls[c].pc \notin {"new", "done"}

====
